---------------------------- MODULE Spec2Model ----------------------------
(***************************************************************************)
(* A model of beanstalkt.Client (src/beanstalkt/beanstalkt.py): the FIFO   *)
(* request queue with its single in-flight slot, the reply handling        *)
(* (_recv, _recv_body, _do_callback), the session state kept by the use,  *)
(* watch and ignore wrappers, and the connection life cycle (connect,      *)
(* close, stream closure, the reconnect timer).                            *)
(*                                                                         *)
(* The client runs on one Tornado IOLoop.  A step of the model is one      *)
(* piece of code that runs without yielding: a call made by the user, one  *)
(* IOLoop callback, one stream callback or one timer.  The beanstalkd      *)
(* server and the TCP connection are the environment.                      *)
(*                                                                         *)
(* Spec is the client with the four commands that carry its session state  *)
(* or a body; SpecServing is Spec with a server that refuses nothing;      *)
(* SpecDecode runs the reply handling on every command and every status;   *)
(* SpecMalformed adds replies that lack what the decoder reads; SpecYaml   *)
(* runs _parse_yaml on the bodies of mappings and lists; SpecJobs is the   *)
(* client with put, reserve and delete and a server that keeps jobs;       *)
(* SpecUp is the pipeline on a connection that stays up, with fairness,    *)
(* and SpecStall the same with entries whose cb is None; SpecClose is the  *)
(* client with close() called also while it is closed.                     *)
(*                                                                         *)
(* SpecTc is a model of the callback-style client beanstalktc.Client       *)
(* (src/beanstalktc/beanstalktc.py), which has variables of its own.       *)
(***************************************************************************)
EXTENDS Naturals, Sequences, FiniteSets, TLC

(***************************************************************************)
(* Bounds of the model.                                                    *)
(***************************************************************************)
\* number of requests the user submits in one behaviour
MaxReq == 3
\* number of times the connection is closed by the peer (or fails to open)
MaxLoss == 1
\* the largest number a reply announces (a count, a job id, a body's length)
MaxSize == 40

(***************************************************************************)
(* Values.                                                                 *)
(***************************************************************************)
\* tube names the user passes; "7" is a name made of digits only
Tubes == {"default", "7"}

\* the commands modelled: three that carry the session state, one that is
\* answered with a body
Verbs == {"use", "watch", "ignore", "reserve"}

\* tokens for which str.isdigit() is true, among those the model exchanges
DigitTokens == {"0", "1", "2", "3", "7"}

\* str(n) for the counts and lengths the server reports
NumStr(n) == ToString(n)

\* whether int(s) returns for token s (it raises ValueError otherwise)
IsDecimal(s) == \E n \in 0..MaxSize : NumStr(n) = s

\* int(s) for the tokens that announce a length
ParseInt(s) == CHOOSE n \in 0..MaxSize : NumStr(n) = s

\* A queue entry (request, cb): the request's verb and tube name, and the
\* number of the submission whose wrapper cb resumes.
Entry(id, verb, name) == [id |-> id, verb |-> verb, name |-> name]
NoEntry == Entry(0, "", "")

\* A Python object handed to a completion: None, an int, a str, a job
\* (ObjectDict(id, body)), a parsed yaml body (a list or a dict), or an
\* exception of class `kind`.  An exception carries the request, the status and the values of
\* the reply (err_args); a job and a yaml body carry the bytes of the body.
Obj(kind, val, status) ==
  [kind |-> kind, val |-> val, status |-> status, request |-> NoEntry,
   values |-> <<>>, body |-> <<>>]
PyNone == Obj("None", "", "")
PyStr(s) == Obj("str", s, "")
PyInt(s) == Obj("int", s, "")
PyJob(id, data) == [Obj("job", id, "") EXCEPT !.body = data]
ErrorClasses ==
  {"Buried", "TimedOut", "DeadlineSoon", "CommandFailed", "UnexpectedResponse"}
PyError(class, e, status, values) ==
  [Obj(class, "", status) EXCEPT !.request = e, !.values = values]
IsException(o) == o.kind \in ErrorClasses

\* the exception a piece of code ends with instead of returning an object
Raised(class) == Obj("raised", class, "")

\* '{}'.format(o) as the wrappers use it to build a command line
Format(o) == o.val

(***************************************************************************)
(* Request descriptors: the Bunch each wrapper builds.                     *)
(***************************************************************************)
\* every command a wrapper of the client sends (peek stands for the four
\* peek wrappers, which share _peek's request)
Commands ==
  {"put", "use", "reserve", "delete", "release", "bury", "touch", "watch",
   "ignore", "peek", "kick", "kick-job", "stats-job", "stats-tube", "stats",
   "list-tubes", "list-tube-used", "list-tubes-watched", "pause-tube"}

ReqOk(verb) ==
  CASE verb = "put" -> {"INSERTED"}
    [] verb = "use" -> {"USING"}
    [] verb = "reserve" -> {"RESERVED"}
    [] verb = "delete" -> {"DELETED"}
    [] verb = "release" -> {"RELEASED"}
    [] verb = "bury" -> {"BURIED"}
    [] verb = "touch" -> {"TOUCHED"}
    [] verb = "watch" -> {"WATCHING"}
    [] verb = "ignore" -> {"WATCHING"}
    [] verb = "peek" -> {"FOUND"}
    [] verb \in {"kick", "kick-job"} -> {"KICKED"}
    [] verb \in {"stats-job", "stats-tube", "stats", "list-tubes",
                 "list-tubes-watched"} -> {"OK"}
    [] verb = "list-tube-used" -> {"USING"}
    [] verb = "pause-tube" -> {"PAUSED"}

\* err= of the request; a Bunch without err has None, which is false
ReqErr(verb) ==
  CASE verb = "put" -> {"BURIED", "JOB_TOO_BIG", "DRAINING"}
    [] verb = "reserve" -> {"DEADLINE_SOON", "TIMED_OUT"}
    [] verb = "release" -> {"BURIED", "NOT_FOUND"}
    [] verb = "ignore" -> {"NOT_IGNORED"}
    [] verb \in {"delete", "bury", "touch", "peek", "kick-job", "stats-job",
                 "stats-tube", "pause-tube"} -> {"NOT_FOUND"}
    [] OTHER -> {}

ReqReadValue(verb) ==
  verb \in {"put", "use", "watch", "ignore", "kick", "list-tube-used"}
ReqReadBody(verb) ==
  verb \in {"reserve", "peek", "stats-job", "stats-tube", "stats",
            "list-tubes", "list-tubes-watched"}
ReqParseYaml(verb) ==
  verb \in {"stats-job", "stats-tube", "stats", "list-tubes",
            "list-tubes-watched"}

(***************************************************************************)
(* State.                                                                  *)
(***************************************************************************)
VARIABLES
  _stream,    \* "none" (None), "connecting", "open", "closed": the IOStream
  _using,     \* self._using
  _watching,  \* self._watching
  _queue,     \* self._queue: the queued (request, cb) entries
  _talking,   \* self._talking
  _reconnect_cb, \* self._reconnect_cb: "None" or "callback"
  future,     \* per submission, in submission order: the state of the future
              \* its wrapper returned: "pending", "resolved" (the wrapper
              \* returned resp) or "raised" (an exception left _interact);
              \* "none" for an entry whose cb is None
  reading,    \* the read callback registered on the stream: the entry it
              \* belongs to, which read it waits for, the status and the
              \* values of the status line once read
  rbuf,       \* the bytes received after the last status line and not yet
              \* consumed by a read
  callbacks,  \* the IOLoop's callback queue (add_callback), oldest first
  timers,     \* reconnect timeouts pending on the IOLoop (add_timeout)
  closing,    \* where the close() coroutine is: "no" (not called on this
              \* stream), "write" (waits for quit to be written), "wait"
              \* (waits for the close callback), "done" (returned)
  inflight,   \* the submissions written to the current stream whose reply
              \* has not been handled to its end
  srvWatching, \* the server's watch list for the current connection
  srvUsing,   \* the tube the server uses for the current connection
  srvJobs,    \* the jobs the server holds, and the id it gives the next one
  written,    \* history: submissions in the order their command was written
  delivered,  \* history: submissions in the order their cb was invoked
  notified,   \* history: number of calls of the reconnect callback
  losses,     \* history: number of stream closures so far
  tc_stream,  \* beanstalktc.Client: "idle", "connecting", "open", "closed":
              \* its IOStream
  tc_reading, \* beanstalktc.Client: the read callback registered on its
              \* stream
  tc_rbuf,    \* beanstalktc.Client: the reply received and not yet
              \* consumed: its status line and the bytes after it
  tc_called   \* beanstalktc.Client, history: the calls made of the callbacks
              \* the user passed, as (command, argument)

vars == <<_stream, _using, _watching, _queue, _talking, _reconnect_cb, future,
          reading, rbuf, callbacks, timers, closing, inflight, srvWatching,
          srvUsing, srvJobs, written, delivered, notified, losses,
          tc_stream, tc_reading, tc_rbuf, tc_called>>

session == <<_using, _watching>>
server == <<srvWatching, srvUsing, srvJobs>>
\* the promise-style client beanstalkt.Client, with its stream, IOLoop,
\* server and histories
beanstalkt == <<_stream, _using, _watching, _queue, _talking, _reconnect_cb,
                future, reading, rbuf, callbacks, timers, closing, inflight,
                srvWatching, srvUsing, srvJobs, written, delivered, notified,
                losses>>
\* the callback-style client beanstalktc.Client
tc == <<tc_stream, tc_reading, tc_rbuf, tc_called>>
\* the reconnect callback and the calls made of it
notification == <<_reconnect_cb, notified>>

NoRead == [req |-> NoEntry, phase |-> "none", status |-> "", values |-> <<>>]

\* a server that holds no job and gives the next one the id next
NoJobs(next) == [next |-> next, jobs |-> {}]

NoTcRead == [verb |-> "", phase |-> "none", values |-> <<>>]
NoTcReply == [status |-> "", values |-> <<>>, body |-> <<>>]

\* beanstalktc.Client.__init__
InitTc ==
  /\ tc_stream = "idle"
  /\ tc_reading = NoTcRead
  /\ tc_rbuf = NoTcReply
  /\ tc_called = <<>>

\* Client.__init__
Init ==
  /\ _stream = "none"
  /\ _using = PyStr("default")
  /\ _watching = {"default"}
  /\ _queue = <<>>
  /\ _talking = FALSE
  /\ _reconnect_cb = "None"
  /\ future = <<>>
  /\ reading = NoRead
  /\ rbuf = <<>>
  /\ callbacks = <<>>
  /\ timers = 0
  /\ closing = "no"
  /\ inflight = {}
  /\ srvWatching = {"default"}
  /\ srvUsing = "default"
  /\ srvJobs = NoJobs(1)
  /\ written = <<>>
  /\ delivered = <<>>
  /\ notified = 0
  /\ losses = 0
  /\ InitTc

\* Client.closed
closed == _stream \in {"none", "closed"}

(***************************************************************************)
(* The request pipeline.                                                   *)
(***************************************************************************)
\* a mutant of Enqueue: appendleft instead of append
EnqueueLeft(q, e) == <<e>> \o q

\* _interact: self._queue.append((request, cb))
Enqueue(q, e) == Append(q, e)

\* a mutant of CanDispatch: the guard without its test of _talking
CanDispatchIgnoringTalking(talking, q) == q # <<>>

\* _process_queue's guard: it returns when talking or when the queue is empty
CanDispatch(talking, q) == ~talking /\ q # <<>>

\* a mutant of _process_queue: the head written and left in the queue
_process_queue_keeping(talking, q) ==
  IF ~CanDispatch(talking, q)
  THEN [talking |-> talking, queue |-> q, wrote |-> NoEntry, raised |-> FALSE]
  ELSE [talking |-> TRUE, queue |-> q,
        wrote |-> IF closed THEN NoEntry ELSE Head(q),
        raised |-> closed]

\* _process_queue on queue q with flag talking.  It sets _talking and pops the
\* head before it writes; IOStream.write raises when the stream is closed (or
\* is None), and then nothing restores the flag or the entry.
\*   wrote: the entry whose command was written (NoEntry: none)
\*   raised: the call ended by the exception
_process_queue(talking, q) ==
  IF ~CanDispatch(talking, q)
  THEN [talking |-> talking, queue |-> q, wrote |-> NoEntry, raised |-> FALSE]
  ELSE [talking |-> TRUE, queue |-> Tail(q),
        wrote |-> IF closed THEN NoEntry ELSE Head(q),
        raised |-> closed]

\* a mutant of ReadAfter: a command written without a read being asked for
ReadAfterNone(pq) == reading

\* the read callback _process_queue registers once the command is written
ReadAfter(pq) ==
  IF pq.wrote = NoEntry THEN reading
  ELSE [req |-> pq.wrote, phase |-> "status", status |-> "", values |-> <<>>]

WrittenAfter(pq) ==
  IF pq.wrote = NoEntry THEN written ELSE Append(written, pq.wrote.id)

InflightAfter(pq) ==
  IF pq.wrote = NoEntry THEN inflight ELSE inflight \cup {pq.wrote.id}

\* A wrapper (use, watch, ignore, reserve, ...) called by the user: it builds
\* the request and yields Task(self._interact, request); _interact appends the
\* entry and calls _process_queue.  An exception leaving _process_queue is
\* thrown into the wrapper and ends the caller's future.
_interact(verb, name) ==
  /\ LET id == Len(future) + 1
         pq == _process_queue(_talking, Enqueue(_queue, Entry(id, verb, name)))
     IN /\ future' = Append(future, IF pq.raised THEN "raised" ELSE "pending")
        /\ _queue' = pq.queue
        /\ _talking' = pq.talking
        /\ reading' = ReadAfter(pq)
        /\ written' = WrittenAfter(pq)
        /\ inflight' = InflightAfter(pq)
  /\ UNCHANGED <<_stream, session, rbuf, callbacks, timers, closing, server,
                 delivered, notification, losses, tc>>

\* _interact called with None for cb: the entry (request, None) is
\* appended and served like any other; no wrapper and no future wait for it
\* ("none").
_interact_None(verb, name) ==
  /\ LET id == Len(future) + 1
         pq == _process_queue(_talking, Enqueue(_queue, Entry(id, verb, name)))
     IN /\ future' = Append(future, IF pq.raised THEN "raised" ELSE "none")
        /\ _queue' = pq.queue
        /\ _talking' = pq.talking
        /\ reading' = ReadAfter(pq)
        /\ written' = WrittenAfter(pq)
        /\ inflight' = InflightAfter(pq)
  /\ UNCHANGED <<_stream, session, rbuf, callbacks, timers, closing, server,
                 delivered, notification, losses, tc>>

\* the user calls a wrapper, MaxReq times at most
Submit(verb, name) ==
  /\ Len(future) < MaxReq
  /\ _interact(verb, name)

(***************************************************************************)
(* Replies.                                                                *)
(***************************************************************************)
\* a mutant of Classify: the chain without its last else
ClassifyNoDefault(verb, status) ==
  IF ReqOk(verb) # {} /\ status \in ReqOk(verb) THEN ""
  ELSE IF status = "BURIED" THEN "Buried"
  ELSE IF status = "TIMED_OUT" THEN "TimedOut"
  ELSE IF status = "DEADLINE_SOON" THEN "DeadlineSoon"
  ELSE IF ReqErr(verb) # {} /\ status \in ReqErr(verb) THEN "CommandFailed"
  ELSE "None"

\* a mutant of Classify: the special statuses tested before the ok list
ClassifySpecialFirst(verb, status) ==
  IF status = "BURIED" THEN "Buried"
  ELSE IF status = "TIMED_OUT" THEN "TimedOut"
  ELSE IF status = "DEADLINE_SOON" THEN "DeadlineSoon"
  ELSE IF ReqOk(verb) # {} /\ status \in ReqOk(verb) THEN ""
  ELSE IF ReqErr(verb) # {} /\ status \in ReqErr(verb) THEN "CommandFailed"
  ELSE "UnexpectedResponse"

\* _recv, lines 181-193: the class of the error, "" for success
Classify(verb, status) ==
  IF ReqOk(verb) # {} /\ status \in ReqOk(verb) THEN ""
  ELSE IF status = "BURIED" THEN "Buried"
  ELSE IF status = "TIMED_OUT" THEN "TimedOut"
  ELSE IF status = "DEADLINE_SOON" THEN "DeadlineSoon"
  ELSE IF ReqErr(verb) # {} /\ status \in ReqErr(verb) THEN "CommandFailed"
  ELSE "UnexpectedResponse"

\* a mutant of ErrArgs: the error built without the reply's values
ErrArgsWithoutValues(e, status, values) ==
  [request |-> e, status |-> status, values |-> <<>>]

\* _recv, line 179: err_args, what an error is built from
ErrArgs(e, status, values) ==
  [request |-> e, status |-> status, values |-> values]

\* _recv, lines 178-193: resp.error, PyNone for success
RecvError(e, status, values) ==
  LET error == Classify(e.verb, status)
      err_args == ErrArgs(e, status, values)
  IN IF error = "" THEN PyNone
     ELSE PyError(error, err_args.request, err_args.status, err_args.values)

\* _do_callback, lines 245-260: the object the completion is called with, or
\* the IndexError resp.values[0] ends with when the reply has no value
CallbackObj(e, status, values, body) ==
  LET error == RecvError(e, status, values)
  IN IF error # PyNone THEN error
     ELSE IF ReqReadValue(e.verb)
          THEN IF values = <<>> THEN Raised("IndexError")
               ELSE IF values[1] \in DigitTokens
               THEN PyInt(values[1]) ELSE PyStr(values[1])
     ELSE IF ReqReadBody(e.verb) THEN body
     ELSE PyNone

Callback(type, e, obj) == [type |-> type, req |-> e, obj |-> obj]

\* the cb of entry e is not None
HasCb(e) == future[e.id] # "none"

\* a mutant of AfterCallback: _do_callback returning before it adds cb
AfterCallbackWithoutCb(cbs, e, obj) ==
  Append(cbs, Callback("_process_queue", NoEntry, PyNone))

\* a mutant of AfterCallback: _do_callback without its call of
\* add_callback(self._process_queue)
AfterCallbackWithoutDispatch(cbs, e, obj) ==
  Append(cbs, Callback("cb", e, obj))

\* a mutant of AfterCallback: the test of cb made before _process_queue is
\* added
AfterCallbackReturningFirst(cbs, e, obj) ==
  IF ~HasCb(e) THEN cbs
  ELSE Append(Append(cbs, Callback("_process_queue", NoEntry, PyNone)),
              Callback("cb", e, obj))

\* _do_callback, lines 238-242 and 262: what it adds to the IOLoop;
\* it returns after the first when cb is None
AfterCallback(cbs, e, obj) ==
  IF ~HasCb(e)
  THEN Append(cbs, Callback("_process_queue", NoEntry, PyNone))
  ELSE Append(Append(cbs, Callback("_process_queue", NoEntry, PyNone)),
              Callback("cb", e, obj))

\* _do_callback
_do_callback(e, obj) ==
  /\ _talking' = FALSE
  /\ callbacks' = AfterCallback(callbacks, e, obj)
  /\ reading' = NoRead
  /\ inflight' = inflight \ {e.id}

\* A status the verb does not declare, as beanstalkd sends for a command it
\* cannot carry out (OUT_OF_MEMORY, BAD_FORMAT, INTERNAL_ERROR,
\* UNKNOWN_COMMAND); it changes nothing at the server.
Refusals == {"OUT_OF_MEMORY"}

\* the two bytes that end a body
Crlf == <<"CR", "LF">>

\* What the server answers to a command, given its state for the
\* connection: [status, values, body, watching, using]; body is what follows
\* the status line.
ServerReplies(verb, name) ==
  LET reply(st, vals, w, u) ==
        [status |-> st, values |-> vals, body |-> <<>>, watching |-> w,
         using |-> u]
      same(st) == reply(st, <<>>, srvWatching, srvUsing)
  IN  CASE verb = "use" -> {reply("USING", <<name>>, srvWatching, name)}
        [] verb = "watch" ->
             {reply("WATCHING", <<NumStr(Cardinality(srvWatching \cup {name}))>>,
                    srvWatching \cup {name}, srvUsing)}
        [] verb = "ignore" ->
             IF name \in srvWatching /\ Cardinality(srvWatching) < 2
             THEN {same("NOT_IGNORED")}
             ELSE {reply("WATCHING",
                         <<NumStr(Cardinality(srvWatching \ {name}))>>,
                         srvWatching \ {name}, srvUsing)}
        [] verb = "reserve" ->
             {[reply("RESERVED", <<"1", "3">>, srvWatching, srvUsing)
                 EXCEPT !.body = <<"a", "b", "c">> \o Crlf],
              same("TIMED_OUT"), same("DEADLINE_SOON")}

ServerRefusals ==
  {[status |-> st, values |-> <<>>, body |-> <<>>, watching |-> srvWatching,
    using |-> srvUsing] : st \in Refusals}

\* _recv, lines 202-206: the size of the body the status line announces
BodySize(values) ==
  IF Len(values) = 2 THEN ParseInt(values[2]) ELSE ParseInt(values[1])

\* a mutant of JobId: the id taken from the last value of the line
JobIdLast(values) == IF Len(values) = 2 THEN values[2] ELSE ""

\* _recv, lines 202-204: resp.job_id, "" when the line has no id
JobId(values) == IF Len(values) = 2 THEN values[1] ELSE ""

\* a mutant of ReadLength: the body read without its terminating crlf
ReadLengthOfBody(size) == size

\* _recv, line 207: the number of bytes asked of read_bytes
ReadLength(size) == size + 2

\* _recv, line 208: data[:-2]
StripCrlf(data) == SubSeq(data, 1, Len(data) - 2)

\* a mutant of ReadsBody: the body read whenever the request expects one
ReadsBodyDespiteError(verb, status) == ReqReadBody(verb)

\* _recv, line 197: whether a body is read after the status line
ReadsBody(verb, status) ==
  ~(Classify(verb, status) # "" \/ ~ReqReadBody(verb))

\* a mutant of close_callback: close() leaving the stream's close callback
\* as connect set it
close_callback_kept == "_reconnect"

\* The close callback of the stream: _reconnect, set by connect (line 121),
\* until close() replaces it by its own Callback(key) (line 139).
close_callback == IF closing = "no" THEN "_reconnect" ELSE "key"

\* IOStream.close, and the closure by the peer: closed() is true from here
\* on, the stream drops its pending read and what it had buffered, and hands
\* its close callback to the IOLoop.
StreamCloses(cbs) ==
  /\ _stream' = "closed"
  /\ reading' = NoRead
  /\ rbuf' = <<>>
  /\ inflight' = {}
  /\ callbacks' = Append(cbs, Callback(close_callback, NoEntry, PyNone))

\* _recv, lines 202-206: whether the sizes of the status line are read
\* without an exception (IndexError when the line has no value, ValueError
\* when a value is no number)
SizeRaises(values) ==
  IF Len(values) = 2
  THEN ~IsDecimal(values[1]) \/ ~IsDecimal(values[2])
  ELSE values = <<>> \/ ~IsDecimal(values[1])

\* _recv on the status line of reply r to the request being read.  _recv is
\* run as a callback of the stream: when it ends with an exception, the
\* IOStream logs it and closes the stream.  _do_callback ends with its
\* exception after it has cleared _talking and added _process_queue to the
\* IOLoop.
_recv(r) ==
  LET e == reading.req
      obj == CallbackObj(e, r.status, r.values, PyNone)
  IN /\ srvWatching' = r.watching
     /\ srvUsing' = r.using
     /\ srvJobs' = IF "jobs" \in DOMAIN r THEN r.jobs ELSE srvJobs
     /\ IF ~ReadsBody(e.verb, r.status)
        THEN IF HasCb(e) /\ obj.kind = "raised"
             THEN /\ _talking' = FALSE
                  /\ StreamCloses(Append(callbacks,
                                         Callback("_process_queue", NoEntry,
                                                  PyNone)))
             ELSE /\ _do_callback(e, obj)
                  /\ rbuf' = r.body
                  /\ UNCHANGED _stream
        ELSE IF SizeRaises(r.values)
             THEN /\ StreamCloses(callbacks)
                  /\ UNCHANGED _talking
             ELSE \* read_bytes(size + 2, ...)
                  /\ reading' = [req |-> e, phase |-> "body",
                                 status |-> r.status, values |-> r.values]
                  /\ rbuf' = r.body
                  /\ UNCHANGED <<_stream, _talking, callbacks, inflight>>
     /\ UNCHANGED <<session, _queue, future, timers, closing, written,
                    delivered, notification, losses, tc>>

\* The status line of the reply to the in-flight request arrives and the
\* read_until callback runs _recv: the server carried the command out.
ReplyLine ==
  /\ _stream = "open"
  /\ reading.phase = "status"
  /\ \E r \in ServerReplies(reading.req.verb, reading.req.name) : _recv(r)

\* The same, the server refusing the command.
ReplyRefusal ==
  /\ _stream = "open"
  /\ reading.phase = "status"
  /\ \E r \in ServerRefusals : _recv(r)

(***************************************************************************)
(* The yaml bodies.  A body is a sequence of bytes; a str made of it is the *)
(* sequence of its characters, "LF" being the newline and "CR" the         *)
(* carriage return.                                                        *)
(***************************************************************************)
Digits == {"0", "1", "2", "3", "4", "5", "6", "7", "8", "9"}

\* the characters str.strip() removes
Whitespace == {" ", "CR", "LF"}

\* s.isdigit()
isdigit(s) == s # <<>> /\ \A i \in 1..Len(s) : s[i] \in Digits

\* the index of the first sep in s, 0 when s holds none (s.find(sep) + 1)
find(s, sep) ==
  IF \A i \in 1..Len(s) : s[i] # sep THEN 0
  ELSE CHOOSE i \in 1..Len(s) :
         s[i] = sep /\ \A j \in 1..(i - 1) : s[j] # sep

\* s.split(sep): the pieces of s between every two occurrences of sep
RECURSIVE split(_, _)
split(s, sep) ==
  IF find(s, sep) = 0 THEN <<s>>
  ELSE <<SubSeq(s, 1, find(s, sep) - 1)>>
         \o split(SubSeq(s, find(s, sep) + 1, Len(s)), sep)

\* s.strip()
strip(s) ==
  LET kept == {i \in 1..Len(s) : s[i] \notin Whitespace}
  IN IF kept = {} THEN <<>>
     ELSE SubSeq(s, CHOOSE i \in kept : \A j \in kept : i <= j,
                 CHOOSE i \in kept : \A j \in kept : j <= i)

\* s.replace(old, '', 1)
replace(s, old) ==
  IF find(s, old) = 0 THEN s
  ELSE SubSeq(s, 1, find(s, old) - 1) \o SubSeq(s, find(s, old) + 1, Len(s))

\* s.startswith('- ')
startswith(s) == Len(s) >= 2 /\ s[1] = "-" /\ s[2] = " "

\* a string of digits without its leading zeros, "0" when nothing is left
RECURSIVE LessZeros(_)
LessZeros(s) ==
  IF s = <<>> THEN <<"0">>
  ELSE IF Head(s) = "0" THEN LessZeros(Tail(s)) ELSE s

\* a string of digits without its trailing zeros, "0" when nothing is left
RECURSIVE LessTrailingZeros(_)
LessTrailingZeros(s) ==
  IF s = <<>> THEN <<"0">>
  ELSE IF s[Len(s)] = "0" THEN LessTrailingZeros(SubSeq(s, 1, Len(s) - 1))
  ELSE s

\* A scalar of a yaml mapping: an int, a float or a str, held as the text
\* Python prints it with (str(7) for int('007'), str(1.5) for
\* float('1.50')), so that equal numbers are equal scalars.
Scalar(kind, text) == [kind |-> kind, text |-> text]

\* int(v), v made of digits
int(v) == Scalar("int", LessZeros(v))

\* float(v), v made of digits and one '.'
float(v) ==
  Scalar("float",
         LessZeros(SubSeq(v, 1, find(v, ".") - 1)) \o <<".">>
           \o LessTrailingZeros(SubSeq(v, find(v, ".") + 1, Len(v))))

\* _parse_yaml, lines 229-230: conv
conv(v) ==
  IF isdigit(replace(v, "."))
  THEN IF find(v, ".") # 0 THEN float(v) ELSE int(v)
  ELSE Scalar("str", v)

\* dict(pairs): a key keeps the place of its first pair and the value of its
\* last one
RECURSIVE dict(_)
dict(pairs) ==
  IF pairs = <<>> THEN <<>>
  ELSE LET init == dict(SubSeq(pairs, 1, Len(pairs) - 1))
           last == pairs[Len(pairs)]
       IN IF \E i \in 1..Len(init) : init[i][1] = last[1]
          THEN [i \in 1..Len(init) |->
                  IF init[i][1] = last[1] THEN last ELSE init[i]]
          ELSE Append(init, last)

\* a parsed yaml body: a list of str, or an ObjectDict given by its items
PyList(items) == [Obj("list", "", "") EXCEPT !.body = items]
PyDict(items) == [Obj("dict", "", "") EXCEPT !.body = items]

\* _parse_yaml, lines 223-232: resp.body made of data, or the exception the
\* parse ends with: IndexError when there is no line between the first and
\* the last one, ValueError when a line of a mapping does not split in two
\* at ':'
_parse_yaml(data) ==
  LET lines == split(data, "LF")
      spl == SubSeq(lines, 2, Len(lines) - 1)
  IN IF spl = <<>> THEN Raised("IndexError")
     ELSE IF startswith(spl[1])
     THEN PyList([i \in 1..Len(spl) |-> SubSeq(spl[i], 3, Len(spl[i]))])
     ELSE IF \E i \in 1..Len(spl) : Len(split(spl[i], ":")) # 2
     THEN Raised("ValueError")
     ELSE PyDict(dict([i \in 1..Len(spl) |->
                         <<split(spl[i], ":")[1],
                           conv(strip(split(spl[i], ":")[2]))>>]))

\* _recv_body: resp.body made of the data read, or the exception
\* _parse_yaml ends with
_recv_body(e, values, data) ==
  IF ReqParseYaml(e.verb) THEN _parse_yaml(data)
  ELSE PyJob(JobId(values), data)

\* The bytes asked of read_bytes have arrived and its callback runs
\* _recv_body on them, less the last two: resp.body is made and the request
\* ends.  When _parse_yaml ends with an exception, _do_callback is not
\* reached and the IOStream closes the stream.
ReplyBody ==
  /\ _stream = "open"
  /\ reading.phase = "body"
  /\ LET n == ReadLength(BodySize(reading.values))
         body == _recv_body(reading.req, reading.values,
                            StripCrlf(SubSeq(rbuf, 1, n)))
     IN /\ Len(rbuf) >= n
        /\ IF body.kind = "raised"
           THEN /\ StreamCloses(callbacks)
                /\ UNCHANGED _talking
           ELSE /\ rbuf' = SubSeq(rbuf, n + 1, Len(rbuf))
                /\ _do_callback(reading.req,
                                CallbackObj(reading.req, reading.status,
                                            reading.values, body))
                /\ UNCHANGED _stream
  /\ UNCHANGED <<session, _queue, future, timers, closing, server, written,
                 delivered, notification, losses, tc>>

(***************************************************************************)
(* Completions and the session state.                                      *)
(***************************************************************************)
\* a mutant of use_using: the assignment without its isinstance test
use_using_unguarded(resp) == resp

\* use, lines 301-302: what _using is after the wrapper got resp
use_using(resp) == IF ~IsException(resp) THEN resp ELSE _using

\* watch, line 409: what _watching is after the wrapper got resp
watch_watching(name, resp) == _watching \cup {name}

\* ignore, lines 424-426: what _watching is after the wrapper got resp
ignore_watching(name, resp) == _watching \ {name}

\* The wrapper of entry e resumes with resp (the Task's callback): it
\* updates the session state and resolves the caller's future with resp.
\* When the future was already ended by an exception there is no wrapper
\* left to run.
Resume(e, resp) ==
  IF future[e.id] # "pending"
  THEN UNCHANGED <<future, session>>
  ELSE /\ future' = [future EXCEPT ![e.id] = "resolved"]
       /\ _using' = IF e.verb = "use" THEN use_using(resp) ELSE _using
       /\ _watching' =
            CASE e.verb = "watch" -> watch_watching(e.name, resp)
              [] e.verb = "ignore" -> ignore_watching(e.name, resp)
              [] OTHER -> _watching

\* The IOLoop runs its oldest callback:
\*   _process_queue (an exception it raises is logged by the IOLoop);
\*   cb(obj), which resumes the wrapper;
\*   _reconnect, a closed stream's close callback: it adds the timeout;
\*   quit, the callback of close()'s write of quit: close() goes on, closes
\*     the stream and waits for the close callback;
\*   key, the close callback close() set: close() returns.
RunCallback ==
  /\ callbacks # <<>>
  /\ LET c == Head(callbacks)
     IN CASE c.type = "_process_queue" ->
               LET pq == _process_queue(_talking, _queue)
               IN /\ _queue' = pq.queue
                  /\ _talking' = pq.talking
                  /\ reading' = ReadAfter(pq)
                  /\ written' = WrittenAfter(pq)
                  /\ inflight' = InflightAfter(pq)
                  /\ callbacks' = Tail(callbacks)
                  /\ UNCHANGED <<_stream, rbuf, future, session, delivered,
                                 timers, closing>>
          [] c.type = "cb" ->
               /\ delivered' = Append(delivered, c.req.id)
               /\ Resume(c.req, c.obj)
               /\ callbacks' = Tail(callbacks)
               /\ UNCHANGED <<_stream, rbuf, _queue, _talking, reading,
                              written, inflight, timers, closing>>
          [] c.type = "_reconnect" ->
               /\ timers' = timers + 1
               /\ callbacks' = Tail(callbacks)
               /\ UNCHANGED <<_stream, rbuf, _queue, _talking, reading,
                              written, inflight, future, session, delivered,
                              closing>>
          [] c.type = "quit" ->
               /\ closing' = "wait"
               /\ IF closed
                  THEN /\ callbacks' = Tail(callbacks)
                       /\ UNCHANGED <<_stream, reading, rbuf, inflight>>
                  ELSE StreamCloses(Tail(callbacks))
               /\ UNCHANGED <<_queue, _talking, written, future, session,
                              delivered, timers>>
          [] c.type = "key" ->
               /\ closing' = "done"
               /\ callbacks' = Tail(callbacks)
               /\ UNCHANGED <<_stream, rbuf, _queue, _talking, reading,
                              written, inflight, future, session, delivered,
                              timers>>
  /\ UNCHANGED <<server, notification, losses, tc>>

(***************************************************************************)
(* The connection.                                                         *)
(***************************************************************************)
\* a mutant of connect: one that also sets the session state as __init__ does
connect_resetting ==
  IF _stream \in {"connecting", "open"}
  THEN UNCHANGED vars
  ELSE /\ _talking' = FALSE
       /\ _stream' = "connecting"
       /\ closing' = "no"
       /\ _using' = PyStr("default")
       /\ _watching' = {"default"}
       /\ UNCHANGED <<_queue, future, reading, rbuf, callbacks, timers,
                      inflight, server, written, delivered, notification,
                      losses, tc>>

\* a mutant of connect: connect without its test of closed()
connect_unguarded ==
  /\ _talking' = FALSE
  /\ _stream' = "connecting"
  /\ closing' = "no"
  /\ UNCHANGED <<session, _queue, future, reading, rbuf, callbacks, timers,
                 inflight, server, written, delivered, notification, losses,
                 tc>>

\* connect, called by the user.  It returns at once unless closed();
\* otherwise it clears _talking and opens a new IOStream whose close callback
\* is _reconnect.  It does not touch the queue and does not call
\* _process_queue.
connect ==
  IF ~closed
  THEN UNCHANGED vars
  ELSE /\ _talking' = FALSE
       /\ _stream' = "connecting"
       /\ closing' = "no"
       /\ UNCHANGED <<session, _queue, future, reading, rbuf, callbacks,
                      timers, inflight, server, written, delivered,
                      notification, losses, tc>>

\* The TCP connection is established: the server starts a session with its
\* defaults, the jobs an earlier session had reserved being ready again.
\* What was written while connecting reaches the server now.
Connected ==
  /\ _stream = "connecting"
  /\ _stream' = "open"
  /\ srvWatching' = {"default"}
  /\ srvUsing' = "default"
  /\ srvJobs' = [srvJobs EXCEPT
                   !.jobs = {[j EXCEPT !.state = "ready"] : j \in srvJobs.jobs}]
  /\ UNCHANGED <<session, _queue, _talking, future, reading, rbuf, callbacks,
                 timers, closing, inflight, written, delivered, notification,
                 losses, tc>>

\* The stream closes without close() having closed it: the peer closed the
\* connection, or the connection attempt failed.
StreamClosed ==
  /\ _stream \in {"connecting", "open"}
  /\ losses < MaxLoss
  /\ losses' = losses + 1
  /\ StreamCloses(callbacks)
  /\ UNCHANGED <<session, _queue, _talking, future, timers, closing, server,
                 written, delivered, notification, tc>>

\* a mutant of ReconnectTimeout: the timeout's call of connect accepted
ReconnectTimeoutConnects ==
  /\ timers > 0
  /\ timers' = timers - 1
  /\ IF ~closed
     THEN UNCHANGED <<_talking, _stream, closing>>
     ELSE /\ _talking' = FALSE
          /\ _stream' = "connecting"
          /\ closing' = "no"
  /\ UNCHANGED <<session, _queue, future, reading, rbuf, callbacks, inflight,
                 server, written, delivered, notification, losses, tc>>

\* The reconnect timeout fires: lambda: self.connect(self._reconnected).
\* connect is declared connect(self) (line 110), so the call passes one
\* positional argument too many: binding the arguments fails with a
\* TypeError before any line of connect runs, _reconnected is never called,
\* and no further timeout is added.
ReconnectTimeout ==
  /\ timers > 0
  /\ timers' = timers - 1
  /\ UNCHANGED <<_stream, session, _queue, _talking, future, reading, rbuf,
                 callbacks, closing, inflight, server, written, delivered,
                 notification, losses, tc>>

\* close, called by the user on a connected client that is not being closed
\* already: it makes Callback(key) the stream's close callback and writes
\* quit; the coroutine goes on when the IOLoop runs the callback of that
\* write.  (On a closed client close() writes nothing and closes nothing,
\* line 140.)
close ==
  /\ _stream = "open"
  /\ closing = "no"
  /\ closing' = "write"
  /\ callbacks' = Append(callbacks, Callback("quit", NoEntry, PyNone))
  /\ UNCHANGED <<_stream, session, _queue, _talking, future, reading, rbuf,
                 timers, inflight, server, written, delivered, notification,
                 losses, tc>>

\* close, called by the user on a client whose stream is closed: it sets the
\* close callback of the closed stream (line 139), finds closed() true
\* (line 140) and returns; it writes nothing, closes nothing and does not
\* touch the IOLoop's timeouts.
close_closed ==
  /\ _stream = "closed"
  /\ closing = "no"
  /\ closing' = "returned"
  /\ UNCHANGED <<_stream, session, _queue, _talking, future, reading, rbuf,
                 callbacks, timers, inflight, server, written, delivered,
                 notification, losses, tc>>

\* set_reconnect_callback, called by the user, who registers the callback
\* before the first connect
set_reconnect_callback ==
  /\ _stream = "none"
  /\ _reconnect_cb' = "callback"
  /\ UNCHANGED <<_stream, session, _queue, _talking, future, reading, rbuf,
                 callbacks, timers, closing, inflight, server, written,
                 delivered, notified, losses, tc>>

\* connect as the user calls it: not while a close() they called has not
\* returned
UserConnect ==
  /\ closing \in {"no", "done"}
  /\ connect

\* what the user does
User ==
  \/ \E verb \in Verbs \ {"reserve"}, name \in Tubes : Submit(verb, name)
  \/ Submit("reserve", "")
  \/ UserConnect
  \/ close
  \/ set_reconnect_callback

\* what the client does on the IOLoop besides handling replies
Loop ==
  \/ ReplyBody
  \/ RunCallback
  \/ Connected
  \/ StreamClosed
  \/ ReconnectTimeout

Next == User \/ Loop \/ ReplyLine \/ ReplyRefusal

Spec == Init /\ [][Next]_vars

\* The same with a server that carries out every command.
NextServing == User \/ Loop \/ ReplyLine

SpecServing == Init /\ [][NextServing]_vars

(***************************************************************************)
(* The decoder on every command and every status.  A connected client has  *)
(* written one request, of any command, and may hold a second one in its   *)
(* queue; the peer answers with any status line.                           *)
(***************************************************************************)
\* the status tokens of the protocol the wrappers name, and two they do not
StatusTokens ==
  UNION {ReqOk(verb) \cup ReqErr(verb) : verb \in Commands}
    \cup {"BURIED", "TIMED_OUT", "DEADLINE_SOON", "UNKNOWN_COMMAND",
          "OUT_OF_MEMORY"}

\* the bodies of jobs the peer sends; one of them holds the bytes of a line
\* end
Bodies == {<<>>, <<"a">>, <<"CR", "LF">>, <<"a", "CR", "b">>}

\* the first line of a yaml body
YamlStart == <<"-", "-", "-", "LF">>

\* lines, each ended by a newline
RECURSIVE Lines(_)
Lines(ls) == IF ls = <<>> THEN <<>> ELSE Head(ls) \o <<"LF">> \o Lines(Tail(ls))

\* the yaml body beanstalkd sends for a list of names: a line "- name" each
YamlOfList(items) ==
  YamlStart \o Lines([i \in 1..Len(items) |-> <<"-", " ">> \o items[i]])

\* the yaml body beanstalkd sends for a mapping: a line "key: value" for each
\* item, the value printed as its text
YamlOfDict(items) ==
  YamlStart \o Lines([i \in 1..Len(items) |->
                        items[i][1] \o <<":", " ">> \o items[i][2].text])

\* the yaml bodies the peer sends here: a mapping of an int, a str and a
\* float, and a list of two names
YamlBodies ==
  {YamlOfDict(<<<<<<"a">>, Scalar("int", <<"1">>)>>,
                <<<<"b">>, Scalar("str", <<"x">>)>>,
                <<<<"c">>, Scalar("float", <<"1", ".", "5">>)>>>>),
   YamlOfList(<<<<"x">>, <<"y">>>>)}

\* The replies the peer may send to a command.  A reply with a status of the
\* request's ok list has the shape the protocol gives it: a value for a
\* request that reads one, <id> <bytes> and a body for a job, <bytes> and a
\* body for yaml.  Of the other statuses BURIED carries the id of the job
\* (BURIED <id> in reply to put), the rest nothing.
AnyReplies(verb) ==
  LET reply(st, vals, data) ==
        [status |-> st, values |-> vals, body |-> data,
         watching |-> srvWatching, using |-> srvUsing]
      ok == ReqOk(verb)
  IN (IF ReqParseYaml(verb)
      THEN {reply(st, <<NumStr(Len(b))>>, b \o Crlf) :
              st \in ok, b \in YamlBodies}
      ELSE IF ReqReadBody(verb)
      THEN {reply(st, <<"1", NumStr(Len(b))>>, b \o Crlf) :
              st \in ok, b \in Bodies}
      ELSE IF ReqReadValue(verb)
      THEN {reply(st, <<v>>, <<>>) : st \in ok, v \in {"1", "x"}}
      ELSE {reply(st, <<>>, <<>>) : st \in ok})
     \cup {reply(st, IF st = "BURIED" THEN <<"1">> ELSE <<>>, <<>>) :
             st \in StatusTokens \ ok}

\* the client after connect, one request written and at most one queued
InitDecode ==
  /\ _stream = "open"
  /\ _using = PyStr("default")
  /\ _watching = {"default"}
  /\ \E verb \in Commands :
       reading = [req |-> Entry(1, verb, "7"), phase |-> "status",
                  status |-> "", values |-> <<>>]
  /\ \E verb \in {"bury", "kick-job"}, n \in 0..1 :
       /\ _queue = [i \in 1..n |-> Entry(2, verb, "")]
       /\ future = [i \in 1..(n + 1) |-> "pending"]
  /\ _talking = TRUE
  /\ _reconnect_cb = "None"
  /\ rbuf = <<>>
  /\ callbacks = <<>>
  /\ timers = 0
  /\ closing = "no"
  /\ inflight = {1}
  /\ srvWatching = {"default"}
  /\ srvUsing = "default"
  /\ srvJobs = NoJobs(1)
  /\ written = <<1>>
  /\ delivered = <<>>
  /\ notified = 0
  /\ losses = 0
  /\ InitTc

\* The status line of a reply arrives, whatever its status, and the
\* read_until callback runs _recv.
ReplyAny ==
  /\ _stream = "open"
  /\ reading.phase = "status"
  /\ \E r \in AnyReplies(reading.req.verb) : _recv(r)

NextDecode == ReplyAny \/ ReplyBody \/ RunCallback

SpecDecode == InitDecode /\ [][NextDecode]_vars

(***************************************************************************)
(* Jobs.  A connected client puts, reserves and deletes jobs at a server   *)
(* that holds none at first; all of them are in the tube "default".        *)
(***************************************************************************)
\* number of calls the user makes
MaxJobReq == 4

\* the bodies put, by name, and their bytes
JobBodies == {"job", "x"}
Bytes(name) == IF name = "job" THEN <<"j", "o", "b">> ELSE <<"x">>

\* the ids the user passes to delete
JobIds == {"1", "2"}

\* What beanstalkd answers to put, reserve-with-timeout 0 and delete, given
\* the jobs it holds: put inserts a ready job under the next id; reserve
\* hands out the oldest ready job, or times out; delete removes the job of
\* that id, or finds none.
JobReplies(verb, name) ==
  LET reply(st, vals, data, jobs) ==
        [status |-> st, values |-> vals, body |-> data,
         watching |-> srvWatching, using |-> srvUsing, jobs |-> jobs]
      ready == {j \in srvJobs.jobs : j.state = "ready"}
  IN CASE verb = "put" ->
            {reply("INSERTED", <<NumStr(srvJobs.next)>>, <<>>,
                   [next |-> srvJobs.next + 1,
                    jobs |-> srvJobs.jobs
                               \cup {[id |-> srvJobs.next, body |-> Bytes(name),
                                      state |-> "ready"]}])}
       [] verb = "reserve" ->
            IF ready = {}
            THEN {reply("TIMED_OUT", <<>>, <<>>, srvJobs)}
            ELSE LET j == CHOOSE j \in ready : \A k \in ready : j.id <= k.id
                 IN {reply("RESERVED", <<NumStr(j.id), NumStr(Len(j.body))>>,
                           j.body \o Crlf,
                           [srvJobs EXCEPT
                              !.jobs = (@ \ {j})
                                         \cup {[j EXCEPT !.state = "reserved"]}])}
       [] verb = "delete" ->
            IF \E j \in srvJobs.jobs : NumStr(j.id) = name
            THEN {reply("DELETED", <<>>, <<>>,
                        [srvJobs EXCEPT
                           !.jobs = {j \in @ : NumStr(j.id) # name}])}
            ELSE {reply("NOT_FOUND", <<>>, <<>>, srvJobs)}

\* the client after connect; the server gives its first job the id 1 or 2
InitJobs ==
  /\ _stream = "open"
  /\ _using = PyStr("default")
  /\ _watching = {"default"}
  /\ _queue = <<>>
  /\ _talking = FALSE
  /\ _reconnect_cb = "None"
  /\ future = <<>>
  /\ reading = NoRead
  /\ rbuf = <<>>
  /\ callbacks = <<>>
  /\ timers = 0
  /\ closing = "no"
  /\ inflight = {}
  /\ srvWatching = {"default"}
  /\ srvUsing = "default"
  /\ \E next \in 1..2 : srvJobs = NoJobs(next)
  /\ written = <<>>
  /\ delivered = <<>>
  /\ notified = 0
  /\ losses = 0
  /\ InitTc

\* put(body), reserve(timeout=0) or delete(job_id) called by the user
SubmitJob ==
  /\ Len(future) < MaxJobReq
  /\ \/ \E name \in JobBodies : _interact("put", name)
     \/ _interact("reserve", "")
     \/ \E name \in JobIds : _interact("delete", name)

\* The status line of the reply to the in-flight request arrives and the
\* read_until callback runs _recv.
ReplyJob ==
  /\ _stream = "open"
  /\ reading.phase = "status"
  /\ \E r \in JobReplies(reading.req.verb, reading.req.name) : _recv(r)

NextJobs == SubmitJob \/ ReplyJob \/ ReplyBody \/ RunCallback

SpecJobs == InitJobs /\ [][NextJobs]_vars

(***************************************************************************)
(* The decoder on replies that are not what the protocol gives: SpecDecode *)
(* with a peer that may also send, with a status of the request's ok list, *)
(* a line without the value or the sizes that go with it, or a yaml body   *)
(* that is neither a list nor a mapping.                                   *)
(***************************************************************************)
\* yaml bodies that are neither: no line after the first one, and a line
\* without ':'
MalformedYaml == {YamlStart, YamlStart \o <<"x", "LF">>}

MalformedReplies(verb) ==
  LET reply(st, vals, data) ==
        [status |-> st, values |-> vals, body |-> data,
         watching |-> srvWatching, using |-> srvUsing]
      ok == ReqOk(verb)
  IN (IF ReqParseYaml(verb)
      THEN {reply(st, <<NumStr(Len(b))>>, b \o Crlf) :
              st \in ok, b \in MalformedYaml}
      ELSE {})
     \cup (IF ReqReadBody(verb)
          THEN {reply(st, vals, <<>>) : st \in ok, vals \in {<<>>, <<"x">>}}
          ELSE IF ReqReadValue(verb)
          THEN {reply(st, <<>>, <<>>) : st \in ok}
          ELSE {})

\* The status line of such a reply arrives and the read_until callback runs
\* _recv.
ReplyMalformed ==
  /\ _stream = "open"
  /\ reading.phase = "status"
  /\ \E r \in MalformedReplies(reading.req.verb) : _recv(r)

NextMalformed == ReplyMalformed \/ ReplyAny \/ ReplyBody \/ RunCallback

SpecMalformed == InitDecode /\ [][NextMalformed]_vars

(***************************************************************************)
(* The yaml decoder on the bodies of mappings and lists.  A connected      *)
(* client has written a request that is answered with a yaml body and has  *)
(* read the status line OK <bytes>; the body has arrived.                  *)
(***************************************************************************)
\* the keys of the mappings, in the order of their lines
Keys == <<<<"a">>, <<"b">>, <<"c">>>>

\* the values of the mappings: ints, floats and strs, one str holding ':'
Scalars ==
  {Scalar("int", <<"1">>), Scalar("int", <<"2", "0">>),
   Scalar("float", <<"1", ".", "5">>), Scalar("str", <<"x">>),
   Scalar("str", <<"1", "x">>), Scalar("str", <<"x", ":", "y">>)}

\* the mappings decoded: one to three keys
Mappings ==
  UNION {{[i \in 1..n |-> <<Keys[i], v[i]>>] : v \in [1..n -> Scalars]} :
           n \in 1..Len(Keys)}

\* the lists decoded: one or two names
Names == {<<"x">>, <<"y">>, <<"a", ":", " ", "1">>}
Lists == UNION {[1..n -> Names] : n \in 1..2}

YamlVerbs == {verb \in Commands : ReqParseYaml(verb)}

\* the client after connect, a request written and its status line read
InitYaml ==
  /\ _stream = "open"
  /\ _using = PyStr("default")
  /\ _watching = {"default"}
  /\ \E verb \in YamlVerbs,
        data \in {YamlOfDict(m) : m \in Mappings}
                   \cup {YamlOfList(l) : l \in Lists} :
       /\ reading = [req |-> Entry(1, verb, "7"), phase |-> "body",
                     status |-> "OK", values |-> <<NumStr(Len(data))>>]
       /\ rbuf = data \o Crlf
  /\ _queue = <<>>
  /\ future = <<"pending">>
  /\ _talking = TRUE
  /\ _reconnect_cb = "None"
  /\ callbacks = <<>>
  /\ timers = 0
  /\ closing = "no"
  /\ inflight = {1}
  /\ srvWatching = {"default"}
  /\ srvUsing = "default"
  /\ srvJobs = NoJobs(1)
  /\ written = <<1>>
  /\ delivered = <<>>
  /\ notified = 0
  /\ losses = 0
  /\ InitTc

NextYaml == ReplyBody \/ RunCallback

SpecYaml == InitYaml /\ [][NextYaml]_vars

(***************************************************************************)
(* Helpers of the properties.                                              *)
(***************************************************************************)
Ids == 1..Len(future)
Increasing(q) == \A i, j \in 1..Len(q) : i < j => q[i] < q[j]
QueueIds == [i \in 1..Len(_queue) |-> _queue[i].id]

\* the step runs the cb of entry e with object obj
Delivers(e, obj) ==
  /\ callbacks # <<>>
  /\ Head(callbacks) = Callback("cb", e, obj)
  /\ delivered' = Append(delivered, e.id)

\* the step resumes the wrapper of entry e with resp, which resolves the
\* caller's future with resp
Resumes(e, resp) ==
  /\ Delivers(e, resp)
  /\ future[e.id] = "pending"
  /\ future'[e.id] = "resolved"

\* the completion the step delivers, if it delivers one
Delivery == IF callbacks = <<>> THEN {} ELSE {Head(callbacks)}

\* the client still holds the entry of submission id: queued, awaited on the
\* stream, or its completion is waiting on the IOLoop
Held(id) ==
  \/ \E i \in 1..Len(_queue) : _queue[i].id = id
  \/ reading.req.id = id
  \/ \E i \in 1..Len(callbacks) :
       callbacks[i].type = "cb" /\ callbacks[i].req.id = id

\* reconnect attempts the client has scheduled: close callbacks _reconnect
\* waiting on the IOLoop and reconnect timeouts
PendingReconnects ==
  timers + Cardinality({i \in 1..Len(callbacks) :
                          callbacks[i].type = "_reconnect"})

\* the client has nothing left to do on the IOLoop or the stream
Quiescent ==
  /\ ~_talking
  /\ _queue = <<>>
  /\ reading = NoRead
  /\ callbacks = <<>>
  /\ timers = 0

\* the completion the step queues by ending the request whose status line
\* (phase "status") or body (phase "body") it reads, if it ends one
Ends(phase) ==
  IF reading.phase = phase /\ Len(callbacks') = Len(callbacks) + 2
  THEN {callbacks'[Len(callbacks')]} ELSE {}

\* the completions waiting on the IOLoop
Completions ==
  {callbacks[i] : i \in {j \in 1..Len(callbacks) : callbacks[j].type = "cb"}}

(***************************************************************************)
(* C1. Single-flight: in every reachable state at most one request has     *)
(* been written to the transport and not yet been answered to the end, and *)
(* no command is written while an earlier one is still outstanding.        *)
(***************************************************************************)
SingleFlight ==
  /\ Cardinality(inflight) <= 1
  /\ inflight # {} => _talking

\* a reserve whose status line was read waits for its body while two later
\* requests wait in the queue
SingleFlightWitness ==
  /\ Cardinality(inflight) = 1
  /\ reading.phase = "body"
  /\ Len(_queue) = 2

(***************************************************************************)
(* C2. FIFO service: commands are written in the order the requests were   *)
(* submitted, completion handlers are invoked in that order, and the queue *)
(* is never reordered: it holds its entries in submission order, all of    *)
(* them submitted after every request already written.                     *)
(***************************************************************************)
FifoService ==
  /\ Increasing(written)
  /\ Increasing(delivered)
  /\ Increasing(QueueIds)
  /\ \A i \in 1..Len(_queue), j \in 1..Len(written) : written[j] < _queue[i].id
  /\ \A i \in 1..Len(delivered) : \E j \in 1..Len(written) :
       written[j] = delivered[i]

\* two requests were queued behind a reserve in flight; the three were
\* written and the first two completed, in the order of submission
FifoServiceWitness ==
  /\ written = <<1, 2, 3>>
  /\ delivered = <<1, 2>>
  /\ reading.req.id = 3
  /\ losses = 0

(***************************************************************************)
(* C3. Exactly-once completion: every submitted request is completed       *)
(* exactly once.  As a state predicate: a request whose future is not yet  *)
(* resolved is still held by the client (so that it will be resolved), and *)
(* no completion handler ran twice.                                        *)
(***************************************************************************)
ExactlyOnceCompletion ==
  /\ \A id \in Ids : future[id] = "pending" => Held(id)
  /\ \A i, j \in 1..Len(delivered) : i # j => delivered[i] # delivered[j]

(***************************************************************************)
(* C4. Deferred dispatch while disconnected: a step taken while the        *)
(* transport is not connected writes nothing, removes no entry from the    *)
(* queue, and a request submitted in it is appended to the queue without   *)
(* an error being raised to its caller.                                    *)
(***************************************************************************)
DeferredWhileDisconnected ==
  [][closed =>
       /\ written' = written
       /\ Len(_queue') >= Len(_queue)
       /\ SubSeq(_queue', 1, Len(_queue)) = _queue
       /\ Len(future') > Len(future) =>
            /\ Len(_queue') = Len(_queue) + 1
            /\ _queue'[Len(_queue')].id = Len(future')
            /\ future'[Len(future')] = "pending"]_vars

(***************************************************************************)
(* C5. After a connection loss and the re-established connection, the      *)
(* entries that were queued are dispatched without a further submit, and   *)
(* none completes with a connection error.  As a state predicate: when the *)
(* connection is open again after a loss, no caller got an exception,      *)
(* nothing is in flight and the IOLoop holds neither a callback nor a      *)
(* timeout of the client, then no entry is left in the queue (nothing but  *)
(* a new submit would dispatch it).                                        *)
(***************************************************************************)
QueuedServedAfterReconnect ==
  (/\ losses > 0
   /\ _stream = "open"
   /\ \A id \in Ids : future[id] # "raised"
   /\ ~_talking
   /\ callbacks = <<>>
   /\ timers = 0) => _queue = <<>>

(***************************************************************************)
(* C6. A tube name enters the watched set only in the step that delivers   *)
(* the completion of a watch of that name whose reply was classified       *)
(* success.                                                                *)
(***************************************************************************)
WatchedOnlyOnSuccess ==
  [][\A t \in Tubes :
       (t \in _watching' /\ t \notin _watching) =>
          \E c \in Delivery :
             /\ Resumes(c.req, c.obj)
             /\ c.req.verb = "watch"
             /\ c.req.name = t
             /\ ~IsException(c.obj)]_vars

WatchedNeverEmpty == _stream = "open" => _watching # {}

ResyncIssued ==
  (/\ losses > 0
   /\ _stream = "open"
   /\ closing = "no"
   /\ Quiescent) =>
     /\ \A t \in _watching \ {"default"} : t \in srvWatching
     /\ Format(_using) # "default" => srvUsing = Format(_using)

ReconnectAttemptPending ==
  (_stream = "closed" /\ closing = "no") => PendingReconnects > 0

(***************************************************************************)
(* C14. A closure made by close() on a connected client schedules no       *)
(* reconnect attempt, and closed() stays true until the user calls         *)
(* connect(): a step that ends with close() past its write of quit leaves  *)
(* the client closed and does not add to the scheduled reconnect attempts. *)
(***************************************************************************)
UserCloseNoReconnect ==
  [][closing' \in {"wait", "done"} =>
       /\ closed'
       /\ PendingReconnects' <= PendingReconnects]_vars

\* close() returned on a client that never lost its connection and had a
\* request in flight: the client is closed and nothing is scheduled
UserCloseNoReconnectWitness ==
  /\ closing = "done"
  /\ closed
  /\ losses = 0
  /\ written # <<>>
  /\ timers = 0
  /\ callbacks = <<>>

(***************************************************************************)
(* C15. close() completes every queued entry and the entry in flight with  *)
(* an error: in the step in which close() returns, no entry is left in the *)
(* queue and no submitted request is unresolved.                           *)
(***************************************************************************)
CloseCompletesEntries ==
  [][(closing = "wait" /\ closing' = "done") =>
       /\ _queue' = <<>>
       /\ \A id \in Ids : future'[id] # "pending"]_vars

(***************************************************************************)
(* C16. The outcome computed for a reply is the one of the ordered rule    *)
(* table: success if the status is in the ok list; else Buried, TimedOut,  *)
(* DeadlineSoon for BURIED, TIMED_OUT, DEADLINE_SOON; else CommandFailed   *)
(* if it is in the err list; else UnexpectedResponse.  It holds for every  *)
(* command and status, and of every error waiting to be delivered.         *)
(***************************************************************************)
RuleTable(ok, err, status) ==
  CASE status \in ok -> ""
    [] status \notin ok /\ status = "BURIED" -> "Buried"
    [] status \notin ok /\ status = "TIMED_OUT" -> "TimedOut"
    [] status \notin ok /\ status = "DEADLINE_SOON" -> "DeadlineSoon"
    [] /\ status \notin ok \cup {"BURIED", "TIMED_OUT", "DEADLINE_SOON"}
       /\ status \in err -> "CommandFailed"
    [] OTHER -> "UnexpectedResponse"

ClassifiedByRuleTable ==
  /\ \A verb \in Commands, status \in StatusTokens :
       Classify(verb, status) = RuleTable(ReqOk(verb), ReqErr(verb), status)
  /\ \A c \in Completions :
       IsException(c.obj) =>
         c.obj.kind =
           RuleTable(ReqOk(c.req.verb), ReqErr(c.req.verb), c.obj.status)
  /\ reading.phase = "body" =>
       RuleTable(ReqOk(reading.req.verb), ReqErr(reading.req.verb),
                 reading.status) = ""

\* a release answered BURIED completes with Buried, and the bury behind it
\* with success (its only ok status is BURIED)
ClassifiedByRuleTableWitness ==
  \E c, d \in Completions :
    /\ c.req.verb = "release" /\ c.obj.kind = "Buried"
    /\ d.req.verb = "bury" /\ d.obj = PyNone

(***************************************************************************)
(* C17. Classification is total: for every command and every status token  *)
(* the classifier yields exactly one of success, Buried, TimedOut,         *)
(* DeadlineSoon, CommandFailed, UnexpectedResponse, and every request      *)
(* whose status line was read has either its completion queued with one of *)
(* these outcomes or, classified success, its body being read.             *)
(***************************************************************************)
ClassifyTotal ==
  /\ \A verb \in Commands, status \in StatusTokens :
       Classify(verb, status) \in {""} \cup ErrorClasses
  /\ \A c \in Completions :
       c.obj.kind \in {"None", "int", "str", "job", "list", "dict"}
                        \cup ErrorClasses
  /\ reading.phase = "body" => Classify(reading.req.verb, reading.status) = ""

\* a status no wrapper names was classified UnexpectedResponse
ClassifyTotalWitness ==
  \E c \in Completions :
    c.obj.kind = "UnexpectedResponse" /\ c.obj.status = "OUT_OF_MEMORY"

NoBodyAfterError ==
  [][/\ reading'.phase = "body" =>
          Classify(reading'.req.verb, reading'.status) = ""
     /\ \A c \in Ends("status") : IsException(c.obj) => reading' = NoRead]_vars

\* the error of a request that expects a body waits to be delivered while
\* the status line of the next request is being read
NoBodyAfterErrorWitness ==
  /\ written = <<1, 2>>
  /\ reading.phase = "status"
  /\ reading.req.id = 2
  /\ \E c \in Completions :
       c.req.id = 1 /\ ReqReadBody(c.req.verb) /\ IsException(c.obj)

(***************************************************************************)
(* C20. Framing: for a success reply announcing a body of L bytes the step *)
(* that ends the request consumes L + 2 bytes of what followed the status  *)
(* line and makes the body from the first L of them; a job has the id of   *)
(* the status line.                                                        *)
(***************************************************************************)
Framing ==
  [][\A c \in Ends("body") :
       LET L == ParseInt(reading.values[Len(reading.values)])
       IN /\ Len(rbuf') = Len(rbuf) - (L + 2)
          /\ IF ReqParseYaml(c.req.verb)
             THEN c.obj = _parse_yaml(SubSeq(rbuf, 1, L))
             ELSE /\ c.obj.body = SubSeq(rbuf, 1, L)
                  /\ c.obj.kind = "job"
                  /\ c.obj.val = reading.values[1]]_vars

\* a job whose body is the two bytes CR LF was read whole
FramingWitness ==
  /\ rbuf = <<>>
  /\ \E c \in Completions :
       c.obj.kind = "job" /\ c.obj.val = "1" /\ c.obj.body = Crlf

(***************************************************************************)
(* C25. Mini-YAML round trip: the body of a flat mapping of string keys to  *)
(* int, float and str scalars decodes to an equal mapping, a value of      *)
(* digits only being an int, one of digits and a single '.' a float and    *)
(* every other one a str; the body of a flat list of strings decodes to    *)
(* the same elements in the same order.  It holds of the completion queued *)
(* by the step that reads the body.                                        *)
(***************************************************************************)
YamlRoundTrip ==
  [][/\ \A m \in Mappings :
          (reading.phase = "body" /\ rbuf = YamlOfDict(m) \o Crlf) =>
             \E c \in Ends("body") : c.obj = PyDict(m)
     /\ \A l \in Lists :
          (reading.phase = "body" /\ rbuf = YamlOfList(l) \o Crlf) =>
             \E c \in Ends("body") : c.obj = PyList(l)]_vars

(***************************************************************************)
(* C26. In mapping decode each line is split once, on its first ':': the   *)
(* key is the text before it, the value all of the text after it, trimmed  *)
(* and converted; a line whose value holds ':' decodes to one key with the *)
(* complete value, and the decode does not fail.                           *)
(***************************************************************************)
\* the line of an item of a mapping
LineOf(item) == item[1] \o <<":", " ">> \o item[2].text

\* the item a line stands for when it is split at its first ':' only
ItemOfLine(line) ==
  <<SubSeq(line, 1, find(line, ":") - 1),
    conv(strip(SubSeq(line, find(line, ":") + 1, Len(line))))>>

MappingSplitOnce ==
  [][\A m \in Mappings :
       (reading.phase = "body" /\ rbuf = YamlOfDict(m) \o Crlf) =>
          \E c \in Ends("body") :
             /\ c.obj.kind = "dict"
             /\ Len(c.obj.body) = Len(m)
             /\ \A i \in 1..Len(m) :
                  c.obj.body[i] = ItemOfLine(LineOf(m[i]))]_vars

(***************************************************************************)
(* C21. A decode failure (a success reply without the numeric tokens of    *)
(* its shape, a yaml body that is neither a flat list nor a flat mapping)  *)
(* is surfaced to the caller as the completion of the request, and the     *)
(* request is never retried.  As a state predicate: every request that was *)
(* written and is no longer in flight has its completion, delivered or     *)
(* waiting on the IOLoop, and no request was written twice.                *)
(***************************************************************************)
\* submission id has its completion: delivered, or waiting on the IOLoop
Completed(id) ==
  \/ \E i \in 1..Len(delivered) : delivered[i] = id
  \/ \E c \in Completions : c.req.id = id

DecodeFailureSurfaced ==
  /\ \A i \in 1..Len(written) :
       written[i] \notin inflight => Completed(written[i])
  /\ \A i, j \in 1..Len(written) : i # j => written[i] # written[j]

(***************************************************************************)
(* C23. A request submitted while another one is in flight is written only *)
(* after the full completion of the one in flight: its status line and its *)
(* body were read, the reply was classified and the completion was         *)
(* delivered to its caller.  As an action property: in a step that writes  *)
(* the command of a request taken from the queue, where its submission had *)
(* left it, every command written before has had its completion handler    *)
(* run.                                                                    *)
(***************************************************************************)
\* the step writes a command
Writes == Len(written') > Len(written)

\* the step writes the command of a request that waited in the queue
WritesQueued == Writes /\ Len(future') = Len(future)

WritesQuit == closing = "no" /\ closing' = "write"

\* the step takes the oldest request off the queue (the one just submitted
\* included), writes its command and asks for the status line of its reply
ServicesDequeued ==
  LET ids == QueueIds \o (IF Len(future') > Len(future)
                          THEN <<Len(future')>> ELSE <<>>)
  IN /\ ids # <<>>
     /\ written' = Append(written, Head(ids))
     /\ QueueIds' = Tail(ids)
     /\ reading'.req.id = Head(ids)
     /\ reading'.phase = "status"

\* the step asks the stream for a read
AsksRead == reading' # reading /\ reading' # NoRead

PipelineOwnsTransport ==
  [][/\ (Writes \/ WritesQuit) => (inflight = {} /\ ServicesDequeued)
     /\ AsksRead =>
          \/ ServicesDequeued
          \/ reading.phase = "status" /\ reading'.phase = "body"
               /\ reading'.req = reading.req]_vars

\* C24, as the code has it: every command is written, and every read asked
\* for, by the pipeline while it services a dequeued request, with no other
\* request in flight; the one other write is the quit of close(), made
\* directly on the stream whatever is in flight or queued; connect and the
\* reconnect path neither write nor read.
PipelineOwnsCommands ==
  [][/\ Writes => (inflight = {} /\ ServicesDequeued /\ ~WritesQuit)
     /\ AsksRead =>
          \/ ServicesDequeued
          \/ reading.phase = "status" /\ reading'.phase = "body"
               /\ reading'.req = reading.req
     /\ WritesQuit => UNCHANGED <<written, reading, _queue, inflight>>
     /\ (_stream' # _stream \/ timers' # timers) =>
          /\ ~Writes /\ ~WritesQuit
          /\ reading' \in {reading, NoRead}]_vars

\* close() has written quit while a request is in flight and another one
\* is queued
PipelineOwnsCommandsWitness ==
  /\ closing = "write"
  /\ inflight # {}
  /\ reading.phase = "status"
  /\ _queue # <<>>

(***************************************************************************)
(* C27. Put, reserve, delete against a server: put of a body completes     *)
(* with a positive integer job id; a following reserve completes with a    *)
(* job carrying that id and that body; delete of that id completes with    *)
(* success; a second delete of the same id completes with CommandFailed    *)
(* whose status is NOT_FOUND.  It holds of the four completions whenever   *)
(* the four calls were made in this order on a client that made no other   *)
(* call, and their completions wait on the IOLoop together.                *)
(***************************************************************************)
\* the completion of submission id that waits on the IOLoop
CompletionOf(id) == CHOOSE c \in Completions : c.req.id = id

PutReserveDelete ==
  (/\ \A id \in 1..4 : \E c \in Completions : c.req.id = id
   /\ CompletionOf(1).req.verb = "put"
   /\ CompletionOf(2).req.verb = "reserve"
   /\ CompletionOf(3).req.verb = "delete"
   /\ CompletionOf(4).req = [CompletionOf(3).req EXCEPT !.id = 4]
   /\ CompletionOf(3).req.name = Format(CompletionOf(1).obj)) =>
     /\ CompletionOf(1).obj.kind = "int"
     /\ ParseInt(CompletionOf(1).obj.val) > 0
     /\ CompletionOf(2).obj =
          PyJob(CompletionOf(1).obj.val, Bytes(CompletionOf(1).req.name))
     /\ CompletionOf(3).obj = PyNone
     /\ CompletionOf(4).obj =
          PyError("CommandFailed", CompletionOf(4).req, "NOT_FOUND", <<>>)

\* the four completions of put('job'), reserve(), delete(2), delete(2) wait
\* together, the server having given the job the id 2
PutReserveDeleteWitness ==
  /\ \A id \in 1..4 : \E c \in Completions : c.req.id = id
  /\ CompletionOf(1).req = Entry(1, "put", "job")
  /\ CompletionOf(1).obj = PyInt("2")
  /\ CompletionOf(2).req.verb = "reserve"
  /\ CompletionOf(3).req = Entry(3, "delete", "2")
  /\ CompletionOf(4).req = Entry(4, "delete", "2")
  /\ CompletionOf(4).obj.status = "NOT_FOUND"


(***************************************************************************)
(* beanstalktc.Client, the callback-style client.  It has no queue: a      *)
(* command is written to the stream at once, and the reply is read by the  *)
(* callbacks the command registers on the stream.                          *)
(***************************************************************************)
MaxTcCalls == 2

TcPeeks == {"peek", "peek-ready", "peek-delayed", "peek-buried"}
TcVerbs == {"reserve", "delete", "use"} \cup TcPeeks

\* the expected_ok and expected_err arguments of the commands
expected_ok(verb) ==
  CASE verb = "reserve" -> {"RESERVED"}
    [] verb \in TcPeeks -> {"FOUND"}
    [] verb = "delete" -> {"DELETED"}
    [] verb = "use" -> {"USING"}

expected_err(verb) ==
  CASE verb = "reserve" -> {"DEADLINE_SOON", "TIMED_OUT"}
    [] verb \in TcPeeks -> {"NOT_FOUND"}
    [] verb = "delete" -> {"NOT_FOUND"}
    [] verb = "use" -> {}

\* _parse_response: the class of the exception it raises, "" when it calls
\* the callback of _interact instead
_parse_response(verb, status) ==
  IF status \in expected_ok(verb) THEN ""
  ELSE IF status = "BURIED" THEN "Buried"
  ELSE IF status \in expected_err(verb) THEN "CommandFailed"
  ELSE "UnexpectedResponse"

\* the dict _read_job calls back with
TcJob(jid, data, reserved) ==
  [Obj("job", jid, IF reserved THEN "reserved" ELSE "peeked")
     EXCEPT !.body = data]

\* the argument of the callback of _interact_value
TcValue(r) == IF IsDecimal(r[1]) THEN PyInt(r[1]) ELSE PyStr(r[1])

\* callback(), of _interact_success
NoArgs == Obj("noargs", "", "")

TcCalled(verb, obj) == [verb |-> verb, obj |-> obj]

\* what the server may send in reply to a command
TcReplies(verb) ==
  LET line(status, values) ==
        [status |-> status, values |-> values, body |-> <<>>]
      job(status) ==
        {[status |-> status, values |-> <<"1", NumStr(Len(b))>>,
          body |-> b \o Crlf] : b \in Bodies}
  IN CASE verb = "reserve" ->
            job("RESERVED") \cup {line("TIMED_OUT", <<>>),
                                   line("DEADLINE_SOON", <<>>),
                                   line("OUT_OF_MEMORY", <<>>)}
       [] verb \in TcPeeks ->
            job("FOUND") \cup {line("NOT_FOUND", <<>>),
                                line("BURIED", <<"1">>)}
       [] verb = "delete" ->
            {line("DELETED", <<>>), line("NOT_FOUND", <<>>)}
       [] verb = "use" ->
            {line("USING", <<"x">>), line("USING", <<"1">>),
             line("INTERNAL_ERROR", <<>>)}

\* connect
TcConnect ==
  /\ tc_stream = "idle"
  /\ tc_stream' = "connecting"
  /\ UNCHANGED <<beanstalkt, tc_reading, tc_rbuf, tc_called>>

TcConnected ==
  /\ tc_stream = "connecting"
  /\ tc_stream' = "open"
  /\ UNCHANGED <<beanstalkt, tc_reading, tc_rbuf, tc_called>>

\* reserve, peek, peek_ready, peek_delayed, peek_buried, delete and use, as
\* far as they run in the caller's stack: _interact hands the command and
\* the read of the status line to the stream and returns, and with it ends
\* the try block that reserve and _interact_peek put around it.  The user
\* calls when the previous command has been answered.
TcCall(verb) ==
  /\ tc_stream = "open"
  /\ tc_reading = NoTcRead
  /\ Len(tc_called) < MaxTcCalls
  /\ tc_reading' = [verb |-> verb, phase |-> "status", values |-> <<>>]
  /\ UNCHANGED <<beanstalkt, tc_stream, tc_rbuf, tc_called>>

\* the server answers the command
TcReply ==
  /\ tc_stream = "open"
  /\ tc_reading.phase = "status"
  /\ tc_rbuf = NoTcReply
  /\ tc_rbuf' \in TcReplies(tc_reading.verb)
  /\ UNCHANGED <<beanstalkt, tc_stream, tc_reading, tc_called>>

\* the read callback of _interact: _parse_response, run by the stream from
\* the IOLoop.  An exception it raises has no handler in this stack: the
\* stream closes itself and the exception is logged by the IOLoop.
TcParseResponse ==
  /\ tc_stream = "open"
  /\ tc_reading.phase = "status"
  /\ tc_rbuf.status # ""
  /\ LET verb == tc_reading.verb
         results == tc_rbuf.values
     IN IF _parse_response(verb, tc_rbuf.status) # ""
        THEN /\ tc_stream' = "closed"
             /\ tc_reading' = NoTcRead
             /\ tc_rbuf' = NoTcReply
             /\ UNCHANGED tc_called
        ELSE /\ UNCHANGED tc_stream
             /\ IF verb = "reserve" \/ verb \in TcPeeks
                THEN \* _read_job
                     /\ tc_reading' = [tc_reading EXCEPT !.phase = "body",
                                                         !.values = results]
                     /\ tc_rbuf' = [tc_rbuf EXCEPT !.status = "",
                                                   !.values = <<>>]
                     /\ UNCHANGED tc_called
                ELSE /\ tc_reading' = NoTcRead
                     /\ tc_rbuf' = NoTcReply
                     /\ tc_called' =
                          Append(tc_called,
                                 TcCalled(verb, IF verb = "use"
                                                THEN TcValue(results)
                                                ELSE NoArgs))
  /\ UNCHANGED beanstalkt

\* the read callback of _read_job
TcReadJob ==
  /\ tc_stream = "open"
  /\ tc_reading.phase = "body"
  /\ LET size == ParseInt(tc_reading.values[2])
     IN /\ Len(tc_rbuf.body) >= size + 2
        /\ tc_called' =
             Append(tc_called,
                    TcCalled(tc_reading.verb,
                             TcJob(tc_reading.values[1],
                                   SubSeq(tc_rbuf.body, 1, size),
                                   tc_reading.verb = "reserve")))
        /\ tc_rbuf' = [tc_rbuf EXCEPT !.body =
                         SubSeq(tc_rbuf.body, size + 3, Len(tc_rbuf.body))]
  /\ tc_reading' = NoTcRead
  /\ UNCHANGED <<beanstalkt, tc_stream>>

NextTc ==
  \/ TcConnect
  \/ TcConnected
  \/ \E verb \in TcVerbs : TcCall(verb)
  \/ TcReply
  \/ TcParseResponse
  \/ TcReadJob

SpecTc == Init /\ [][NextTc]_vars

----------------------------------------------------------------------------
\* C28: in beanstalktc.Client, when TIMED_OUT is read in reply to reserve,
\* or NOT_FOUND in reply to peek, peek_ready, peek_delayed or peek_buried,
\* the caller's callback is called with None and nothing is raised: the
\* stream stays open.
ExpectedFailure(verb, status) ==
  \/ verb = "reserve" /\ status = "TIMED_OUT"
  \/ verb \in TcPeeks /\ status = "NOT_FOUND"

NoneOnExpectedFailure ==
  [][(/\ tc_reading.phase = "status"
      /\ ExpectedFailure(tc_reading.verb, tc_rbuf.status)
      /\ tc_rbuf' # tc_rbuf)
     => /\ tc_called' = Append(tc_called, TcCalled(tc_reading.verb, PyNone))
        /\ tc_stream' = tc_stream]_vars


(***************************************************************************)
(* The pipeline on a connection that stays up.  The client is connected;   *)
(* the user submits requests, the server answers every command it reads    *)
(* (carrying it out or refusing it), the bytes of a body arrive, and the   *)
(* IOLoop runs every callback added to it.                                 *)
(***************************************************************************)
\* the client after connect() and the establishment of the connection
InitUp ==
  /\ _stream = "open"
  /\ _using = PyStr("default")
  /\ _watching = {"default"}
  /\ _queue = <<>>
  /\ _talking = FALSE
  /\ _reconnect_cb = "None"
  /\ future = <<>>
  /\ reading = NoRead
  /\ rbuf = <<>>
  /\ callbacks = <<>>
  /\ timers = 0
  /\ closing = "no"
  /\ inflight = {}
  /\ srvWatching = {"default"}
  /\ srvUsing = "default"
  /\ srvJobs = NoJobs(1)
  /\ written = <<>>
  /\ delivered = <<>>
  /\ notified = 0
  /\ losses = 0
  /\ InitTc

\* the user calls use, watch or ignore on the tube "default", or reserve
SubmitUp ==
  \E verb \in Verbs :
    Submit(verb, IF verb = "reserve" THEN "" ELSE "default")

\* the server answers the command it has read
Answer == ReplyLine \/ ReplyRefusal

NextUp == SubmitUp \/ Answer \/ ReplyBody \/ RunCallback

\* The server answers, the announced bytes arrive, and the IOLoop runs its
\* callbacks; nothing obliges the user to submit.
FairUp ==
  /\ WF_vars(Answer)
  /\ WF_vars(ReplyBody)
  /\ WF_vars(RunCallback)

SpecUp == InitUp /\ [][NextUp]_vars /\ FairUp

----------------------------------------------------------------------------
\* C29: on a connection that stays up, with a server that answers every
\* command, every submitted request is eventually written and its completion
\* delivered; and whenever the client is not talking and the queue is not
\* empty (a reply has been processed), the head of the queue is eventually
\* written, no further submit being needed (none is assumed to happen).
WrittenIds == {written[i] : i \in 1..Len(written)}
DeliveredIds == {delivered[i] : i \in 1..Len(delivered)}

Progress ==
  \A id \in 1..MaxReq :
    /\ (id <= Len(future)) ~> (id \in WrittenIds /\ id \in DeliveredIds)
    /\ (~_talking /\ _queue # <<>> /\ Head(_queue).id = id)
         ~> (id \in WrittenIds)

\* a reply has just been processed while a request waits in the queue
ProgressWitness ==
  /\ ~_talking
  /\ _queue # <<>>
  /\ written # <<>>
  /\ \E i \in 1..Len(callbacks) : callbacks[i].type = "cb"


----------------------------------------------------------------------------
\* C30: the resync's commands go through the queue of the ordinary requests,
\* one in flight at a time, behind what was queued during the outage.  As an
\* action property: when the connection is re-established after a loss and
\* the client's session is not the default one a new connection starts
\* with, the step leaves a command of the resync (watch of a watched tube,
\* ignore of default, use of the used tube) in the queue or in flight.
SessionToResync ==
  \/ _watching # {"default"}
  \/ Format(_using) # "default"

ResyncCommand(e) ==
  \/ e.verb = "watch" /\ e.name \in _watching \ {"default"}
  \/ e.verb = "ignore" /\ e.name = "default" /\ "default" \notin _watching
  \/ e.verb = "use" /\ e.name = Format(_using) /\ e.name # "default"

ResyncInQueue ==
  [][(/\ losses > 0
      /\ _stream = "connecting"
      /\ _stream' = "open"
      /\ SessionToResync)
     => \/ \E i \in 1..Len(_queue') : ResyncCommand(_queue'[i])
        \/ reading' # NoRead /\ ResyncCommand(reading'.req)]_vars


----------------------------------------------------------------------------
\* C31: whenever the client is connected and idle (nothing queued, nothing
\* in flight, nothing left on the IOLoop or its timers), its session state
\* is the server's for the connection: the watched set is the server's
\* watch list and the used tube is the tube the server uses.
SessionIsServers ==
  (/\ _stream = "open"
   /\ closing = "no"
   /\ Quiescent) =>
     /\ _watching = srvWatching
     /\ Format(_using) = srvUsing


----------------------------------------------------------------------------
\* C32: the command of a submitted request is written to a stream at most
\* once: no submission occurs twice among the writes, and a request that was
\* written is not in the queue again, also when the connection was lost
\* while it was in flight and another connection has been made.
WrittenAtMostOnce ==
  /\ \A i, j \in 1..Len(written) : i # j => written[i] # written[j]
  /\ \A i \in 1..Len(_queue) : _queue[i].id \notin WrittenIds

\* a request written after an earlier one was answered was in flight when
\* the connection was lost, and on the connection made since another request
\* is in flight
WrittenAtMostOnceWitness ==
  /\ losses > 0
  /\ _stream = "open"
  /\ reading # NoRead
  /\ \E id \in WrittenIds :
       /\ id # reading.req.id
       /\ ~Held(id)
       /\ id \notin DeliveredIds
       /\ \E d \in DeliveredIds : d < id


(***************************************************************************)
(* The client with close() called also on a closed client, while a         *)
(* reconnect timeout may be pending.                                       *)
(***************************************************************************)
\* connect, called by the user after such a close() returned
ConnectAfterClose ==
  /\ closing = "returned"
  /\ connect

NextClose ==
  \/ SubmitUp
  \/ UserConnect
  \/ ConnectAfterClose
  \/ close
  \/ close_closed
  \/ Loop
  \/ ReplyLine

SpecClose == Init /\ [][NextClose]_vars

----------------------------------------------------------------------------
SubmitNone ==
  /\ Len(future) < MaxReq
  /\ \E verb \in Verbs :
       _interact_None(verb, IF verb = "reserve" THEN "" ELSE "default")

NextStall == SubmitUp \/ SubmitNone \/ Answer \/ ReplyBody \/ RunCallback

SpecStall == InitUp /\ [][NextStall]_vars /\ FairUp

----------------------------------------------------------------------------
\* C35: a reply classified as an error, and a reply to a request whose cb
\* is None, release the in-flight slot and dispatch the next queued request:
\* the step that ends such a request clears _talking, leaves nothing in
\* flight and adds _process_queue to the IOLoop, and the head of the queue
\* is written from there without a further submit.
EndsRequest == reading # NoRead /\ reading' = NoRead

EndsWithError ==
  /\ EndsRequest
  /\ callbacks' # <<>>
  /\ LET c == callbacks'[Len(callbacks')]
     IN c.type = "cb" /\ c.req = reading.req /\ IsException(c.obj)

EndsWithoutCb == EndsRequest /\ ~HasCb(reading.req)

Released ==
  \E i \in 1..Len(callbacks) : callbacks[i].type = "_process_queue"

NoStall ==
  /\ [][(EndsWithError \/ EndsWithoutCb) =>
          /\ ~_talking'
          /\ inflight' = {}
          /\ Released']_vars
  /\ \A id \in 1..MaxReq :
       (~_talking /\ Released /\ _queue # <<>> /\ Head(_queue).id = id)
         ~> (id \in WrittenIds)

\* a request whose cb is None was answered while another waits in the
\* queue: _process_queue alone is on the IOLoop
NoStallWitness ==
  /\ ~_talking
  /\ _queue # <<>>
  /\ reading = NoRead
  /\ written # <<>>
  /\ ~HasCb([id |-> written[Len(written)]])
  /\ callbacks = <<Callback("_process_queue", NoEntry, PyNone)>>


----------------------------------------------------------------------------
\* C36: connect() called while the client is not closed (connected, or still
\* connecting) changes nothing.  A call that changes nothing is no step of
\* the model, so the property is stated of every step taken while the
\* client is not closed: none makes a new stream, none clears the in-flight
\* flag but the end of the request in flight, and the queue and the session
\* state change only by a submit, a dispatch or a completion: in a step
\* that changes neither the requests, the reads nor the IOLoop's callbacks,
\* nothing of the client changes but by the connection being established.
ConnectWhileOpenNoOp ==
  [][~closed =>
       /\ (_stream' = "connecting" => _stream = "connecting")
       /\ (_talking /\ ~_talking' => reading # NoRead /\ reading' = NoRead)
       /\ (UNCHANGED <<future, reading, callbacks, timers, losses>> =>
             UNCHANGED <<_queue, _talking, session, closing, written,
                         inflight>>)]_vars

\* the client is connected with a request in flight, another in the queue
\* and a used tube of its own: connect() may be called and returns at once
ConnectWhileOpenNoOpWitness ==
  /\ _stream = "open"
  /\ closing = "no"
  /\ _talking
  /\ _queue # <<>>
  /\ Format(_using) # "default"

=============================================================================
